---- MODULE Spec2Model ----
(***************************************************************************)
(* Model of src/hackassistant.py: the HackAssistant session loop, the      *)
(* parser of model replies, the diagnostics and the fix/retry sequence.    *)
(*                                                                         *)
(* Text is a sequence of tokens.  A token is a word, a marker, a literal   *)
(* chunk of a format string, a blank " " or a newline "\n".  The string    *)
(* operations of the code (strip, split, startswith, replace, lower,       *)
(* upper, in) are computed on these sequences.                             *)
(***************************************************************************)
EXTENDS Integers, Sequences, FiniteSets, TLC

VARIABLES pc, conversation_history, clock, turns, reply, recent_history,
          ai_response, suggested_command, command, output, fix_suggestion,
          fix_output, choices, shell, diag, error_output, fix_reply, screen, event

vars == <<pc, conversation_history, clock, turns, reply, recent_history,
          ai_response, suggested_command, command, output, fix_suggestion,
          fix_output, choices, shell, diag, error_output, fix_reply, screen, event>>

(* ---------------------------- bounds ----------------------------------- *)
MaxTurns == 1
MaxReplyLen == 5
MaxPrefill == 11
MaxSignalPhrases == 2

(* ------------------------- text primitives ----------------------------- *)
SP == " "
NL == "\n"
Whitespace == {SP, NL}

None == <<>>
Some(x) == <<x>>

RECURSIVE LStrip(_)
LStrip(s) == IF s = <<>> THEN s
             ELSE IF Head(s) \in Whitespace THEN LStrip(Tail(s)) ELSE s

RECURSIVE RStrip(_)
RStrip(s) == IF s = <<>> THEN s
             ELSE IF s[Len(s)] \in Whitespace THEN RStrip(SubSeq(s, 1, Len(s) - 1)) ELSE s

Strip(s) == RStrip(LStrip(s))

RECURSIVE SplitLines(_)
SplitLines(s) ==
    IF \A i \in 1..Len(s) : s[i] # NL THEN <<s>>
    ELSE LET k == CHOOSE i \in 1..Len(s) : s[i] = NL /\ \A j \in 1..(i - 1) : s[j] # NL
         IN  <<SubSeq(s, 1, k - 1)>> \o SplitLines(SubSeq(s, k + 1, Len(s)))

StartsWith(line, marker) == line # <<>> /\ Head(line) = marker

Replace(line, marker) == SelectSeq(line, LAMBDA t : t # marker)

(* upper() and lower() on the tokens whose letter case a comparison of the *)
(* code can see; the other tokens of the inputs are left as they are.      *)
UpperTok(t) == CASE t = "none" -> "NONE"
                 [] t = "None" -> "NONE"
                 [] t = "ls" -> "LS"
                 [] OTHER -> t

Upper(s) == [i \in 1..Len(s) |-> UpperTok(s[i])]

LowerTok(t) == CASE t = "Y" -> "y"
                 [] t = "N" -> "n"
                 [] t = "C" -> "c"
                 [] t = "P" -> "p"
                 [] t = "Error" -> "error"
                 [] t = "Permission" -> "permission"
                 [] t = "Connection" -> "connection"
                 [] t = "Authentication" -> "authentication"
                 [] t = "Command" -> "command"
                 [] t = "No" -> "no"
                 [] t = "Access" -> "access"
                 [] OTHER -> t

Lower(s) == [i \in 1..Len(s) |-> LowerTok(s[i])]

Contains(pattern, s) ==
    \E i \in 0..(Len(s) - Len(pattern)) : SubSeq(s, i + 1, i + Len(pattern)) = pattern

RECURSIVE TakeWord(_)
TakeWord(s) == IF s = <<>> \/ Head(s) \in Whitespace THEN <<>>
               ELSE <<Head(s)>> \o TakeWord(Tail(s))

FirstWord(s) == TakeWord(LStrip(s))

(* --------------------------- markers ----------------------------------- *)
ResponseMarker == "RESPONSE:"
CommandMarker == "COMMAND:"

IsNoneSentinelCaseSensitive(c) == c = <<"NONE">>

IsNoneSentinel(c) == Upper(c) = <<"NONE">>

(* ---------------- _get_ai_response: parsing of the reply --------------- *)
(* the scan without the strip() of the extracted values *)
RECURSIVE ParseLinesUnstripped(_, _, _)
ParseLinesUnstripped(lines, response_text, cmd) ==
    IF lines = <<>> THEN [response_text |-> response_text, suggested_command |-> cmd]
    ELSE LET line == Head(lines)
         IN  IF StartsWith(line, ResponseMarker)
             THEN ParseLinesUnstripped(Tail(lines), Replace(line, ResponseMarker), cmd)
             ELSE IF StartsWith(line, CommandMarker)
             THEN LET c == Replace(line, CommandMarker)
                  IN  IF c # <<>> /\ ~IsNoneSentinel(c)
                      THEN ParseLinesUnstripped(Tail(lines), response_text, Some(c))
                      ELSE ParseLinesUnstripped(Tail(lines), response_text, cmd)
             ELSE ParseLinesUnstripped(Tail(lines), response_text, cmd)

RECURSIVE ParseLines(_, _, _)
ParseLines(lines, response_text, cmd) ==
    IF lines = <<>> THEN [response_text |-> response_text, suggested_command |-> cmd]
    ELSE LET line == Head(lines)
         IN  IF StartsWith(line, ResponseMarker)
             THEN ParseLines(Tail(lines), Strip(Replace(line, ResponseMarker)), cmd)
             ELSE IF StartsWith(line, CommandMarker)
             THEN LET c == Strip(Replace(line, CommandMarker))
                  IN  IF c # <<>> /\ ~IsNoneSentinel(c)
                      THEN ParseLines(Tail(lines), response_text, Some(c))
                      ELSE ParseLines(Tail(lines), response_text, cmd)
             ELSE ParseLines(Tail(lines), response_text, cmd)

ParseReply(text) ==
    LET stripped == Strip(text)
        p == ParseLines(SplitLines(stripped), <<>>, None)
    IN  [response_text |-> IF p.response_text = <<>> THEN stripped ELSE p.response_text,
         suggested_command |-> p.suggested_command]

AiErrorText == <<"Error getting AI response: ", "fault">>

(* the fault answered with an empty explanation *)
GetAiResponseSilent(ai) ==
    IF ai.kind = "fault"
    THEN [response_text |-> <<>>, suggested_command |-> None]
    ELSE ParseReply(ai.text)

GetAiResponse(ai) ==
    IF ai.kind = "fault"
    THEN [response_text |-> AiErrorText, suggested_command |-> None]
    ELSE ParseReply(ai.text)

(* ------------------- conversation history ------------------------------ *)
WindowSize == 20

(* a log that drops its oldest entry once it holds more than the window *)
AddToHistoryBounded(h, role, content, ts) ==
    LET h2 == Append(h, [role |-> role, content |-> content, timestamp |-> ts])
    IN  IF Len(h2) > WindowSize THEN Tail(h2) ELSE h2

AddToHistory(h, role, content, ts) ==
    Append(h, [role |-> role, content |-> content, timestamp |-> ts])

RecentHistoryOneMore(h) ==
    IF Len(h) > WindowSize THEN SubSeq(h, Len(h) - WindowSize, Len(h)) ELSE h

RecentHistory(h) ==
    IF Len(h) > WindowSize THEN SubSeq(h, Len(h) - WindowSize + 1, Len(h)) ELSE h

(* ------------- _analyze_command_output_for_errors ---------------------- *)
CommandNotFound == <<"command", SP, "not", SP, "found">>

ErrorFixes(cmd) == <<
    [pattern |-> <<"permission", SP, "denied">>, fix |-> Some(<<"sudo", SP>> \o cmd)],
    [pattern |-> CommandNotFound, fix |-> None],
    [pattern |-> <<"no", SP, "such", SP, "file", SP, "or", SP, "directory">>,
     fix |-> Some(<<"ls", SP, "-la", SP, "&&", SP>> \o cmd)],
    [pattern |-> <<"connection", SP, "refused">>,
     fix |-> Some(<<"Check if the service is running or firewall settings">>)],
    [pattern |-> <<"network", SP, "unreachable">>,
     fix |-> Some(<<"Check network connectivity with: ping 8.8.8.8">>)],
    [pattern |-> <<"port", SP, "already", SP, "in", SP, "use">>,
     fix |-> Some(<<"Check what's using the port with: netstat -tulnp">>)],
    [pattern |-> <<"disk", SP, "space">>, fix |-> Some(<<"Check disk usage with: df -h">>)],
    [pattern |-> <<"memory">>, fix |-> Some(<<"Check memory usage with: free -h">>)],
    [pattern |-> <<"syntax", SP, "error">>, fix |-> Some(<<"Review the command syntax">>)],
    [pattern |-> <<"access", SP, "denied">>, fix |-> Some(<<"sudo", SP>> \o cmd)],
    [pattern |-> <<"authentication", SP, "failed">>,
     fix |-> Some(<<"Check credentials or permissions">>)] >>

(* the table walked to its end, a later matching entry replacing an earlier one *)
RECURSIVE LastFix(_, _)
LastFix(table, output_lower) ==
    IF table = <<>> THEN None
    ELSE LET rest == LastFix(Tail(table), output_lower)
         IN  IF rest # None THEN rest
             ELSE IF Contains(Head(table).pattern, output_lower) /\ Head(table).fix # None
                  THEN Head(table).fix
                  ELSE None

RECURSIVE FirstFix(_, _)
FirstFix(table, output_lower) ==
    IF table = <<>> THEN None
    ELSE IF Contains(Head(table).pattern, output_lower) /\ Head(table).fix # None
         THEN Head(table).fix
         ELSE FirstFix(Tail(table), output_lower)

(* "command not found" looked at only after the table walk found nothing *)
AnalyzeTableFirst(cmd, out) ==
    LET output_lower == Lower(out)
        cmd_name == FirstWord(cmd)
        table_fix == FirstFix(ErrorFixes(cmd), output_lower)
    IN  IF table_fix # None THEN table_fix
        ELSE IF Contains(CommandNotFound, output_lower) /\ cmd_name # <<>>
             THEN Some(<<"apt-get update && apt-get install -y ">> \o cmd_name)
             ELSE None

AnalyzeCommandOutputForErrors(cmd, out) ==
    LET output_lower == Lower(out)
        cmd_name == FirstWord(cmd)
    IN  IF Contains(CommandNotFound, output_lower) /\ cmd_name # <<>>
        THEN Some(<<"apt-get update && apt-get install -y ">> \o cmd_name)
        ELSE FirstFix(ErrorFixes(cmd), output_lower)

(* -------------------- _get_error_fix_suggestion ------------------------ *)
RECURSIVE FirstCommand(_)
FirstCommand(lines) ==
    IF lines = <<>> THEN None
    ELSE LET c == Strip(Replace(Head(lines), CommandMarker))
         IN  IF StartsWith(Head(lines), CommandMarker) /\ c # <<>> /\ Upper(c) # <<"NONE">>
             THEN Some(c)
             ELSE FirstCommand(Tail(lines))

(* the fault answered with an error text, as _get_ai_response does *)
GetErrorFixSuggestionErrorText(ai) ==
    IF ai.kind = "fault" THEN Some(<<"Error getting AI response: ", "fault">>)
    ELSE FirstCommand(SplitLines(Strip(ai.text)))

GetErrorFixSuggestion(ai) ==
    IF ai.kind = "fault" THEN None
    ELSE FirstCommand(SplitLines(Strip(ai.text)))

(* ---------------- _execute_command: report formatting ------------------ *)
Str(n) == ToString(n)

FormatOutput(res) ==
    (IF res.stdout # <<>> THEN <<"STDOUT:\n">> \o res.stdout \o <<NL>> ELSE <<>>)
    \o (IF res.stderr # <<>> THEN <<"STDERR:\n">> \o res.stderr \o <<NL>> ELSE <<>>)
    \o (IF res.returncode # 0 THEN <<"Return code: ", Str(res.returncode), NL>> ELSE <<>>)

FormatFixOutput(res) ==
    (IF res.stdout # <<>> THEN <<"FIX STDOUT:\n">> \o res.stdout \o <<NL>> ELSE <<>>)
    \o (IF res.stderr # <<>> THEN <<"FIX STDERR:\n">> \o res.stderr \o <<NL>> ELSE <<>>)

FormatRetryOutput(res) ==
    (IF res.stdout # <<>> THEN <<"RETRY STDOUT:\n">> \o res.stdout \o <<NL>> ELSE <<>>)
    \o (IF res.stderr # <<>> THEN <<"RETRY STDERR:\n">> \o res.stderr \o <<NL>> ELSE <<>>)
    \o (IF res.returncode # 0 THEN <<"RETRY Return code: ", Str(res.returncode), NL>> ELSE <<>>)

FailureDetectedAnyNonzero(res) == res.returncode # 0

FailureDetected(res) ==
    res.returncode # 0 /\ (res.stderr # <<>> \/ Contains(<<"error">>, Lower(res.stdout)))

ErrorOutputStdoutFirst(res) == IF res.stdout # <<>> THEN res.stdout ELSE res.stderr

ErrorOutput(res) == IF res.stderr # <<>> THEN res.stderr ELSE res.stdout

ReturnValue(out) ==
    IF out # <<>> THEN out ELSE <<"Command executed successfully (no output)">>

(* an error report that keeps the output captured so far *)
ExecErrorTextAfterOutput == output \o <<"Error executing command: ", "fault">>

ExecErrorText == <<"Error executing command: ", "fault">>

GetUserChoice(ev) == Lower(Strip(ev.text))

(* ------------------------- inputs -------------------------------------- *)
Line(text) == [kind |-> "line", text |-> text]
Interrupt == [kind |-> "interrupt", text |-> <<>>]
InputFault == [kind |-> "fault", text |-> <<>>]

AiText(text) == [kind |-> "text", text |-> text]
AiFault == [kind |-> "fault", text |-> <<>>]

Result(out, err, rc) == [kind |-> "result", stdout |-> out, stderr |-> err, returncode |-> rc]
SpawnFault == [kind |-> "fault", stdout |-> <<>>, stderr |-> <<>>, returncode |-> 0]

LsCommand == <<"ls", SP, "-la">>

UserEvents ==
    { Line(<<>>), Line(<<SP>>), Line(<<"c">>), Line(<<SP, "C">>), Line(<<"p">>),
      Line(<<"list", SP, "files">>), Interrupt, InputFault }

ChoiceEvents ==
    { Line(<<"y">>), Line(<<SP, "Y", NL>>), Line(<<"n">>), Line(<<"x">>),
      Interrupt, InputFault }

SpecExampleReply ==
    <<"EXPLANATION:", SP, "Lists", SP, "files", NL, CommandMarker, SP>> \o LsCommand \o <<NL>>

CodeExampleReply ==
    <<"RESPONSE:", SP, "Lists", SP, "files", NL, CommandMarker, SP>> \o LsCommand \o <<NL>>

AiOutcomes ==
    { AiText(CodeExampleReply),
      AiText(<<"I", SP, "am", SP, "not", SP, "sure">>),
      AiText(<<ResponseMarker, SP, "Nothing", NL, CommandMarker, SP, "None">>),
      AiText(<<CommandMarker, SP>> \o LsCommand \o <<NL, CommandMarker, SP, "none">>),
      AiText(<<>>),
      AiFault }

ShellResults ==
    { Result(<<>>, <<>>, 0),
      Result(<<"file.txt">>, <<>>, 0),
      Result(<<>>, <<"warning">>, 0),
      Result(<<"file.txt">>, <<>>, 1),
      Result(<<"Error", SP, "occurred">>, <<>>, 1),
      Result(<<"Error", SP, "occurred">>, <<>>, 0),
      Result(<<"Permission", SP, "denied">>, <<"boom">>, 2),
      Result(<<>>, <<"ls:", SP, "Permission", SP, "denied">>, 1),
      Result(<<>>, <<"connect:", SP, "Connection", SP, "refused">>, 1),
      Result(<<>>, <<"bash:", SP, "ls:", SP, "command", SP, "not", SP, "found">>, 127),
      SpawnFault }

DiagOutcomes ==
    { AiText(<<ResponseMarker, SP, "Create", NL, CommandMarker, SP, "touch", SP, "x">>),
      AiText(<<CommandMarker, SP, "NONE">>),
      AiFault }

FixResults ==
    { Result(<<"fixed">>, <<>>, 0), Result(<<>>, <<"boom">>, 1), SpawnFault }

RetryResults ==
    { Result(<<"file.txt">>, <<>>, 0), Result(<<>>, <<"boom">>, 2), SpawnFault }

(* --------------------------- Init -------------------------------------- *)
Init ==
    /\ pc = "input"
    /\ conversation_history = <<>>
    /\ clock = 0
    /\ turns = 0
    /\ reply = AiFault
    /\ recent_history = <<>>
    /\ ai_response = <<>>
    /\ suggested_command = None
    /\ command = None
    /\ output = <<>>
    /\ fix_suggestion = None
    /\ fix_output = <<>>
    /\ choices = <<>>
    /\ shell = <<>>
    /\ diag = <<>>
    /\ error_output = <<>>
    /\ fix_reply = None
    /\ screen = "Enter your first prompt"
    /\ event = [at |-> "start", ev |-> Line(<<>>)]

(* ----------------------- run: the session loop ------------------------- *)
(* an interrupt that goes back to the input prompt *)
ExitToPrompt(msg) ==
    /\ pc' = "input"
    /\ screen' = msg

Exit(msg) ==
    /\ pc' = "done"
    /\ screen' = msg

NewTurn(user_input, ai) ==
    LET h1 == AddToHistory(conversation_history, "user", user_input, clock)
        parsed == GetAiResponse(ai)
    IN  /\ turns < MaxTurns
        /\ turns' = turns + 1
        /\ recent_history' = RecentHistory(h1)
        /\ reply' = ai
        /\ ai_response' = parsed.response_text
        /\ suggested_command' = parsed.suggested_command
        /\ conversation_history' = AddToHistory(h1, "assistant", parsed.response_text, clock + 1)
        /\ clock' = clock + 2
        /\ pc' = IF parsed.suggested_command # None THEN "consent" ELSE "input"
        /\ screen' = IF parsed.suggested_command # None THEN "Suggested command" ELSE "Enter new prompt"
        /\ command' = None
        /\ output' = <<>>
        /\ fix_suggestion' = None
        /\ fix_output' = <<>>
        /\ choices' = <<>>
        /\ shell' = <<>>
        /\ diag' = <<>>
        /\ error_output' = <<>>
        /\ fix_reply' = None

IsCloseCommandCaseSensitive(user_input) == user_input = <<"c">>

IsCloseCommand(user_input) == Lower(user_input) = <<"c">>

IsPromptCommand(user_input) == Lower(user_input) = <<"p">>

ReadInput(ev, Ais) ==
    /\ pc = "input"
    /\ event' = [at |-> "input", ev |-> ev]
    /\ IF ev.kind = "interrupt"
       THEN /\ Exit("Goodbye")
            /\ UNCHANGED <<conversation_history, clock, turns, reply, recent_history, ai_response,
                           suggested_command, command, output, fix_suggestion, fix_output,
                           choices, shell, diag,
                           error_output, fix_reply>>
       ELSE IF ev.kind = "fault"
       THEN /\ pc' = "input"
            /\ screen' = "Unexpected error"
            /\ UNCHANGED <<conversation_history, clock, turns, reply, recent_history, ai_response,
                           suggested_command, command, output, fix_suggestion, fix_output,
                           choices, shell, diag,
                           error_output, fix_reply>>
       ELSE LET user_input == Strip(ev.text)
            IN  IF user_input = <<>>
                THEN UNCHANGED <<pc, screen, conversation_history, clock, turns, reply,
                                 recent_history, ai_response, suggested_command, command, output,
                                 fix_suggestion, fix_output, choices, shell, diag,
                           error_output, fix_reply>>
                ELSE IF IsCloseCommand(user_input)
                THEN /\ Exit("Closing conversation")
                     /\ UNCHANGED <<conversation_history, clock, turns, reply, recent_history,
                                    ai_response, suggested_command, command, output,
                                    fix_suggestion, fix_output, choices, shell, diag,
                           error_output, fix_reply>>
                ELSE IF IsPromptCommand(user_input)
                THEN /\ pc' = "input"
                     /\ screen' = "Enter your prompt"
                     /\ UNCHANGED <<conversation_history, clock, turns, reply, recent_history,
                                    ai_response, suggested_command, command, output,
                                    fix_suggestion, fix_output, choices, shell, diag,
                           error_output, fix_reply>>
                ELSE \E ai \in Ais : NewTurn(user_input, ai)

(* an execution-error report that ends the session instead of the turn *)
FinishFatal(report) ==
    /\ output' = report
    /\ conversation_history' =
          AddToHistory(
              AddToHistory(conversation_history, "system",
                           <<"Executed command: ">> \o suggested_command[1], clock),
              "system", <<"Command output: ">> \o report, clock + 1)
    /\ clock' = clock + 2
    /\ pc' = IF report = ExecErrorText THEN "done" ELSE "input"
    /\ screen' = IF report = ExecErrorText THEN "Fatal error" ELSE "Continue working"

(* the return of _execute_command into run: the two system turns *)
Finish(report) ==
    /\ output' = report
    /\ conversation_history' =
          AddToHistory(
              AddToHistory(conversation_history, "system",
                           <<"Executed command: ">> \o suggested_command[1], clock),
              "system", <<"Command output: ">> \o report, clock + 1)
    /\ clock' = clock + 2
    /\ pc' = "input"
    /\ screen' = "Continue working"

ExecuteCommand(cmd, res, Dais) ==
    /\ command' = Some(cmd)
    /\ shell' = Append(shell, [step |-> "original", command |-> cmd, result |-> res])
    /\ IF res.kind = "fault"
       THEN /\ Finish(ExecErrorText)
            /\ UNCHANGED <<fix_suggestion, fix_output, diag,
                           error_output, fix_reply>>
       ELSE LET out == FormatOutput(res)
                pattern_fix == AnalyzeCommandOutputForErrors(cmd, ErrorOutput(res))
            IN  IF FailureDetected(res)
                THEN /\ fix_output' = fix_output
                     /\ IF pattern_fix # None
                        THEN /\ diag' = <<"pattern">>
                             /\ error_output' = ErrorOutput(res)
                             /\ fix_reply' = None
                             /\ fix_suggestion' = pattern_fix
                             /\ pc' = "fixPrompt"
                             /\ screen' = "Suggested fix command"
                             /\ output' = out
                             /\ UNCHANGED <<conversation_history, clock>>
                        ELSE \E dai \in Dais :
                             LET fix == GetErrorFixSuggestion(dai)
                             IN  /\ diag' = <<"pattern", "model">>
                                 /\ error_output' = ErrorOutput(res)
                                 /\ fix_reply' = Some(dai)
                                 /\ fix_suggestion' = fix
                                 /\ IF fix # None
                                    THEN /\ pc' = "fixPrompt"
                                         /\ screen' = "Suggested fix command"
                                         /\ output' = out
                                         /\ UNCHANGED <<conversation_history, clock>>
                                    ELSE Finish(ReturnValue(out))
                ELSE /\ Finish(ReturnValue(out))
                     /\ UNCHANGED <<fix_suggestion, fix_output, diag,
                           error_output, fix_reply>>

ExecuteAcceptedUnlessDenied(choice) == choice # <<"n">>

ExecuteAccepted(choice) == choice = <<"y">>

ExecuteChoice(ev, Results, Dais) ==
    /\ pc = "consent"
    /\ event' = [at |-> "consent", ev |-> ev]
    /\ UNCHANGED <<turns, reply, recent_history, ai_response, suggested_command>>
    /\ IF ev.kind = "interrupt"
       THEN /\ Exit("Goodbye")
            /\ UNCHANGED <<conversation_history, clock, command, output, fix_suggestion,
                           fix_output, choices, shell, diag,
                           error_output, fix_reply>>
       ELSE IF ev.kind = "fault"
       THEN /\ pc' = "input"
            /\ screen' = "Unexpected error"
            /\ UNCHANGED <<conversation_history, clock, command, output, fix_suggestion,
                           fix_output, choices, shell, diag,
                           error_output, fix_reply>>
       ELSE LET choice == GetUserChoice(ev)
            IN  /\ choices' = Append(choices, [prompt |-> "execute", choice |-> choice])
                /\ IF ExecuteAccepted(choice)
                   THEN \E res \in Results : ExecuteCommand(suggested_command[1], res, Dais)
                   ELSE /\ pc' = "input"
                        /\ screen' = IF choice = <<"n">> THEN "Command declined" ELSE "Invalid choice"
                        /\ UNCHANGED <<conversation_history, clock, command, output,
                                       fix_suggestion, fix_output, shell, diag,
                           error_output, fix_reply>>

FixSucceededAlways(res) == res.returncode >= 0

FixSucceeded(res) == res.returncode = 0

(* a retry whose failure is diagnosed again and goes back to the fix prompt *)
RetryOriginalRemediated(Results) ==
    \E res \in Results :
        /\ shell' = Append(shell, [step |-> "retry", command |-> command[1], result |-> res])
        /\ IF res.kind = "fault"
           THEN Finish(ExecErrorText)
           ELSE IF FailureDetected(res)
           THEN /\ pc' = "fixPrompt"
                /\ screen' = "Suggested fix command"
                /\ UNCHANGED <<conversation_history, clock, output>>
           ELSE Finish(ReturnValue(output \o <<"\n--- AFTER FIX ---\n">>
                           \o fix_output \o <<"\n--- RETRY RESULT ---\n">>
                           \o FormatRetryOutput(res)))

RetryReportRetryFirst(out, fix_out, retry_out) ==
    retry_out \o <<"\n--- RETRY RESULT ---\n">> \o fix_out \o <<"\n--- AFTER FIX ---\n">> \o out

RetryReport(out, fix_out, retry_out) ==
    out \o <<"\n--- AFTER FIX ---\n">> \o fix_out \o <<"\n--- RETRY RESULT ---\n">> \o retry_out

(* lines 230-247: the original command run again; its result is only reported *)
RetryOriginal(Results) ==
    \E res \in Results :
        /\ shell' = Append(shell, [step |-> "retry", command |-> command[1], result |-> res])
        /\ IF res.kind = "fault"
           THEN Finish(ExecErrorText)
           ELSE Finish(ReturnValue(RetryReport(output, fix_output, FormatRetryOutput(res))))

(* lines 209-252: the fix command run, then the retry prompt or the failure report *)
ApplyFix(Results) ==
    \E res \in Results :
        /\ shell' = Append(shell, [step |-> "fix", command |-> fix_suggestion[1], result |-> res])
        /\ IF res.kind = "fault"
           THEN /\ Finish(ExecErrorText)
                /\ UNCHANGED fix_output
           ELSE /\ fix_output' = FormatFixOutput(res)
                /\ IF FixSucceeded(res)
                   THEN /\ pc' = "retryPrompt"
                        /\ screen' = "Fix applied successfully"
                        /\ UNCHANGED <<conversation_history, clock, output>>
                   ELSE Finish(ReturnValue(output \o <<"\n--- FIX ATTEMPT FAILED ---\n">>
                                           \o FormatFixOutput(res)))

FixAccepted(choice) == choice = <<"y">>

FixChoice(ev, Results) ==
    /\ pc = "fixPrompt"
    /\ event' = [at |-> "fixPrompt", ev |-> ev]
    /\ UNCHANGED <<turns, reply, recent_history, ai_response, suggested_command, command,
                   fix_suggestion, diag,
                           error_output, fix_reply>>
    /\ IF ev.kind = "interrupt"
       THEN /\ Exit("Goodbye")
            /\ UNCHANGED <<conversation_history, clock, output, fix_output, choices, shell>>
       ELSE IF ev.kind = "fault"
       THEN /\ Finish(ExecErrorText)
            /\ UNCHANGED <<fix_output, choices, shell>>
       ELSE LET choice == GetUserChoice(ev)
            IN  /\ choices' = Append(choices, [prompt |-> "fix", choice |-> choice])
                /\ IF FixAccepted(choice)
                   THEN ApplyFix(Results)
                   ELSE /\ Finish(ReturnValue(output))
                        /\ UNCHANGED <<fix_output, shell>>

RetryAcceptedUnlessDenied(choice) == choice # <<"n">>

RetryAccepted(choice) == choice = <<"y">>

RetryChoice(ev, Results) ==
    /\ pc = "retryPrompt"
    /\ event' = [at |-> "retryPrompt", ev |-> ev]
    /\ UNCHANGED <<turns, reply, recent_history, ai_response, suggested_command, command,
                   fix_suggestion, fix_output, diag,
                           error_output, fix_reply>>
    /\ IF ev.kind = "interrupt"
       THEN /\ Exit("Goodbye")
            /\ UNCHANGED <<conversation_history, clock, output, choices, shell>>
       ELSE IF ev.kind = "fault"
       THEN /\ Finish(ExecErrorText)
            /\ UNCHANGED <<choices, shell>>
       ELSE LET choice == GetUserChoice(ev)
            IN  /\ choices' = Append(choices, [prompt |-> "retry", choice |-> choice])
                /\ IF RetryAccepted(choice)
                   THEN RetryOriginal(Results)
                   ELSE /\ Finish(ReturnValue(output \o <<"\n--- FIX APPLIED ---\n">> \o fix_output))
                        /\ UNCHANGED shell

Next ==
    \/ \E ev \in UserEvents : ReadInput(ev, AiOutcomes)
    \/ \E ev \in ChoiceEvents : ExecuteChoice(ev, ShellResults, DiagOutcomes)
    \/ \E ev \in ChoiceEvents : FixChoice(ev, FixResults)
    \/ \E ev \in ChoiceEvents : RetryChoice(ev, RetryResults)

Spec == Init /\ [][Next]_vars

(* ------- the session started from a log that earlier turns filled ------- *)
Prefill(k) ==
    [i \in 1..(2 * k) |->
        IF i % 2 = 1
        THEN [role |-> "user", content |-> <<"list", SP, "files">>, timestamp |-> i - 1]
        ELSE [role |-> "assistant", content |-> <<"I", SP, "am", SP, "not", SP, "sure">>,
              timestamp |-> i - 1]]

InitLog ==
    /\ \E k \in 0..MaxPrefill :
          /\ conversation_history = Prefill(k)
          /\ clock = 2 * k
    /\ pc = "input"
    /\ turns = 0
    /\ reply = AiFault
    /\ recent_history = <<>>
    /\ ai_response = <<>>
    /\ suggested_command = None
    /\ command = None
    /\ output = <<>>
    /\ fix_suggestion = None
    /\ fix_output = <<>>
    /\ choices = <<>>
    /\ shell = <<>>
    /\ diag = <<>>
    /\ error_output = <<>>
    /\ fix_reply = None
    /\ screen = "Enter new prompt"
    /\ event = [at |-> "start", ev |-> Line(<<>>)]

LogUserEvents == {Line(<<"list", SP, "files">>), Line(<<"p">>)}
LogChoiceEvents == {Line(<<"y">>), Line(<<"n">>)}
LogAiOutcomes == {AiText(CodeExampleReply), AiText(<<"I", SP, "am", SP, "not", SP, "sure">>)}
LogShellResults == {Result(<<"file.txt">>, <<>>, 0), Result(<<>>, <<"ls:", SP, "Permission", SP, "denied">>, 1)}
LogFixResults == {Result(<<"fixed">>, <<>>, 0)}

NextLog ==
    \/ \E ev \in LogUserEvents : ReadInput(ev, LogAiOutcomes)
    \/ \E ev \in LogChoiceEvents : ExecuteChoice(ev, LogShellResults, DiagOutcomes)
    \/ \E ev \in LogChoiceEvents : FixChoice(ev, LogFixResults)
    \/ \E ev \in LogChoiceEvents : RetryChoice(ev, LogShellResults)

SpecLog == InitLog /\ [][NextLog]_vars

(* ------------- the parser applied to every bounded reply --------------- *)
ReplyAlphabet == {ResponseMarker, CommandMarker, NL, SP, "ls", "none", "NONE"}

ExampleReplies ==
    { SpecExampleReply, CodeExampleReply,
      <<CommandMarker, SP, "NONE">>, <<CommandMarker, SP, "None">>,
      <<ResponseMarker, SP, "x", NL, CommandMarker, SP, "NONE", NL, CommandMarker, SP, "ls">>,
      <<CommandMarker, SP, "pwd", NL, CommandMarker, SP>> \o LsCommand }

InitParse ==
    /\ pc = "parse"
    /\ \/ \E n \in 0..MaxReplyLen : \E t \in [1..n -> ReplyAlphabet] : reply = AiText(t)
       \/ \E t \in ExampleReplies : reply = AiText(t)
       \/ reply = AiFault
    /\ conversation_history = <<>>
    /\ clock = 0
    /\ turns = 0
    /\ recent_history = <<>>
    /\ ai_response = <<>>
    /\ suggested_command = None
    /\ command = None
    /\ output = <<>>
    /\ fix_suggestion = None
    /\ fix_output = <<>>
    /\ choices = <<>>
    /\ shell = <<>>
    /\ diag = <<>>
    /\ error_output = <<>>
    /\ fix_reply = None
    /\ screen = "Thinking"
    /\ event = [at |-> "start", ev |-> Line(<<>>)]

ParseStep ==
    /\ pc = "parse"
    /\ pc' = "parsed"
    /\ ai_response' = GetAiResponse(reply).response_text
    /\ suggested_command' = GetAiResponse(reply).suggested_command
    /\ fix_suggestion' = GetErrorFixSuggestion(reply)
    /\ UNCHANGED <<conversation_history, clock, turns, reply, recent_history, command, output,
                   fix_output, choices, shell, diag, error_output, fix_reply, screen, event>>

NextParse == ParseStep

SpecParse == InitParse /\ [][NextParse]_vars

(* ---------- the pattern diagnostics applied to bounded failure texts ---- *)
FooCommand == <<"foo-cli", SP, "status">>
CatCommand == <<"cat", SP, "/etc/shadow">>
DiagCommands == {LsCommand, FooCommand, CatCommand}

Phrases == <<
    <<"Permission", SP, "denied">>,
    <<"command", SP, "not", SP, "found">>,
    <<"No", SP, "such", SP, "file", SP, "or", SP, "directory">>,
    <<"Connection", SP, "refused">>,
    <<"network", SP, "unreachable">>,
    <<"port", SP, "already", SP, "in", SP, "use">>,
    <<"disk", SP, "space">>,
    <<"memory">>,
    <<"syntax", SP, "error">>,
    <<"Access", SP, "denied">>,
    <<"Authentication", SP, "failed">>,
    <<"Command", SP, "not", SP, "found">>,
    <<"boom">> >>

RECURSIVE JoinPhrases(_, _)
JoinPhrases(f, n) ==
    IF n = 0 THEN <<>>
    ELSE IF n = 1 THEN Phrases[f[1]]
    ELSE JoinPhrases(f, n - 1) \o <<NL>> \o Phrases[f[n]]

InitDiag ==
    /\ pc = "diagnose"
    /\ \E cmd \in DiagCommands : command = Some(cmd)
    /\ \E n \in 1..MaxSignalPhrases : \E f \in [1..n -> 1..Len(Phrases)] :
          error_output = JoinPhrases(f, n)
    /\ conversation_history = <<>>
    /\ clock = 0
    /\ turns = 0
    /\ reply = AiFault
    /\ recent_history = <<>>
    /\ ai_response = <<>>
    /\ suggested_command = None
    /\ output = <<>>
    /\ fix_suggestion = None
    /\ fix_output = <<>>
    /\ choices = <<>>
    /\ shell = <<>>
    /\ diag = <<>>
    /\ fix_reply = None
    /\ screen = "Command failed"
    /\ event = [at |-> "start", ev |-> Line(<<>>)]

DiagnoseStep ==
    /\ pc = "diagnose"
    /\ pc' = "diagnosed"
    /\ fix_suggestion' = AnalyzeCommandOutputForErrors(command[1], error_output)
    /\ diag' = <<"pattern">>
    /\ UNCHANGED <<conversation_history, clock, turns, reply, recent_history, ai_response,
                   suggested_command, command, output, fix_output, choices, shell,
                   error_output, fix_reply, screen, event>>

NextDiag == DiagnoseStep

SpecDiag == InitDiag /\ [][NextDiag]_vars

(* ======================== properties =================================== *)
Steps(step) == {i \in 1..Len(shell) : shell[i].step = step}
Answers(prompt) == {choices[i].choice : i \in {j \in 1..Len(choices) : choices[j].prompt = prompt}}
Prompted(prompt) == \E i \in 1..Len(choices) : choices[i].prompt = prompt
ReportHas(section) == Contains(<<section>>, output)
TurnOver == pc \in {"input", "done"}

(* C1: a command reaches the shell in a turn only after the operator answered *)
(* "y" at the "Execute this command?" prompt, the first command run being the *)
(* suggested one; after any other answer at that prompt nothing is run.       *)
ConsentBeforeExecution ==
    /\ shell # <<>> =>
          /\ choices # <<>>
          /\ choices[1] = [prompt |-> "execute", choice |-> <<"y">>]
          /\ shell[1].step = "original"
          /\ shell[1].command = suggested_command[1]
    /\ (choices # <<>> /\ choices[1].prompt = "execute" /\ choices[1].choice # <<"y">>) =>
          shell = <<>>

ExecutedAfterConsent ==
    /\ pc = "input"
    /\ Len(shell) = 1
    /\ shell[1].result.kind = "result"
    /\ choices = <<[prompt |-> "execute", choice |-> <<"y">>]>>

(* C2: the retry prompt is reached only after the fix command ran and returned *)
(* exit code 0; after a fix with a nonzero exit code the report carries the    *)
(* "FIX ATTEMPT FAILED" section, no retry prompt is shown and the original     *)
(* command is not run again.                                                   *)
RetryOnlyAfterSuccessfulFix ==
    /\ (pc = "retryPrompt" \/ Prompted("retry")) =>
          \E i \in Steps("fix") : shell[i].result.kind = "result" /\ shell[i].result.returncode = 0
    /\ \A i \in Steps("fix") :
          (shell[i].result.kind = "result" /\ shell[i].result.returncode # 0) =>
              /\ TurnOver
              /\ ~Prompted("retry")
              /\ Steps("retry") = {}
              /\ ReportHas("\n--- FIX ATTEMPT FAILED ---\n")

FixFailedNoRetry ==
    /\ pc = "input"
    /\ \E i \in Steps("fix") : shell[i].result.kind = "result" /\ shell[i].result.returncode # 0
    /\ ReportHas("\n--- FIX ATTEMPT FAILED ---\n")

(* C3: in a turn at most one fix command is run and the original command is *)
(* run again at most once; each diagnostics runs at most once, the fix      *)
(* prompt is shown at most once, and once the retry ran the turn is over.   *)
AtMostOneFixOneRetry ==
    /\ Cardinality(Steps("original")) <= 1
    /\ Cardinality(Steps("fix")) <= 1
    /\ Cardinality(Steps("retry")) <= 1
    /\ Cardinality({i \in 1..Len(choices) : choices[i].prompt = "fix"}) <= 1
    /\ Cardinality({i \in 1..Len(choices) : choices[i].prompt = "retry"}) <= 1
    /\ diag \in {<<>>, <<"pattern">>, <<"pattern", "model">>}
    /\ Steps("retry") # {} => pc \in {"input", "done"}
    /\ pc = "fixPrompt" => Steps("fix") = {} /\ Steps("retry") = {}

RetryFailedAndReported ==
    /\ pc = "input"
    /\ \E i \in Steps("retry") :
          shell[i].result.kind = "result" /\ FailureDetected(shell[i].result)
    /\ ReportHas("\n--- RETRY RESULT ---\n")

(* C4: the fix command runs only after "y" at the fix prompt and the original *)
(* command runs again only after "y" at the retry prompt; after another       *)
(* answer at the fix prompt no fix and no retry run; after another answer at  *)
(* the retry prompt the report carries "FIX APPLIED" and the original command *)
(* has run once only.                                                         *)
FixAndRetryNeedConsent ==
    /\ Steps("fix") # {} => Answers("fix") = {<<"y">>}
    /\ Steps("retry") # {} => Answers("retry") = {<<"y">>}
    /\ (Prompted("fix") /\ Answers("fix") # {<<"y">>}) =>
          /\ TurnOver
          /\ Steps("fix") = {}
          /\ Steps("retry") = {}
          /\ ~Prompted("retry")
    /\ (Prompted("retry") /\ Answers("retry") # {<<"y">>}) =>
          /\ TurnOver
          /\ Steps("retry") = {}
          /\ ReportHas("\n--- FIX APPLIED ---\n")
          /\ \A i \in 1..Len(shell) : shell[i].step \in {"original", "fix"}

RetryDeclinedAfterFix ==
    /\ pc = "input"
    /\ Answers("retry") = {<<"n">>}
    /\ Steps("fix") # {}
    /\ Steps("retry") = {}
    /\ ReportHas("\n--- FIX APPLIED ---\n")

(* C5: the advisory texts of the "connection refused" and "authentication  *)
(* failed" entries are never the candidate fix shown at the "Apply this    *)
(* fix?" prompt and are never passed to the shell.                         *)
AdvisoryTexts ==
    { <<"Check if the service is running or firewall settings">>,
      <<"Check credentials or permissions">> }

AdvisoryNeverOffered ==
    /\ fix_suggestion # None => fix_suggestion[1] \notin AdvisoryTexts
    /\ \A i \in 1..Len(shell) : shell[i].command \notin AdvisoryTexts

(* C6 as stated: a reply with an explanation-marker line and a command-marker *)
(* line yields exactly the text after each marker, the reply                   *)
(* "EXPLANATION: Lists files\nCOMMAND: ls -la\n" yields "Lists files" and      *)
(* "ls -la", and a reply with neither marker yields the raw reply and no       *)
(* command.                                                                    *)
MarkerLines(lines, markers) == {i \in 1..Len(lines) : lines[i] # <<>> /\ lines[i][1] \in markers}
ValueAfterMarker(line) == Strip(Tail(line))
Occurs(token, text) == \E i \in 1..Len(text) : text[i] = token
NoneWords == {<<"none">>, <<"None">>, <<"NONE">>}

ParserExtractsMarkedValues ==
    (pc = "parsed" /\ reply.kind = "text") =>
        LET lines == SplitLines(reply.text)
            E == MarkerLines(lines, {"EXPLANATION:", "RESPONSE:"})
            C == MarkerLines(lines, {"COMMAND:"})
        IN  /\ (E # {} /\ C # {}) =>
                  /\ \E i \in E : ai_response = ValueAfterMarker(lines[i])
                  /\ \E j \in C : suggested_command = Some(ValueAfterMarker(lines[j]))
            /\ (\A m \in {"EXPLANATION:", "RESPONSE:", "COMMAND:"} : ~Occurs(m, reply.text)) =>
                  /\ ai_response = reply.text
                  /\ suggested_command = None
            /\ reply.text = SpecExampleReply =>
                  /\ ai_response = <<"Lists", SP, "files">>
                  /\ suggested_command = Some(<<"ls", SP, "-la">>)

(* C6 amended: the explanation marker is "RESPONSE:".  A reply that, stripped *)
(* of surrounding whitespace, has exactly one line beginning with "RESPONSE:" *)
(* and exactly one beginning with "COMMAND:", each with a non-empty value in  *)
(* which its marker does not occur again and the command value not "none",    *)
(* yields the stripped text after each marker; "RESPONSE: Lists files\n       *)
(* COMMAND: ls -la\n" yields "Lists files" and "ls -la"; a reply with neither *)
(* marker yields the stripped raw reply as explanation and no command.        *)
ParserExtractsSingleMarkedValues ==
    (pc = "parsed" /\ reply.kind = "text") =>
        LET lines == SplitLines(Strip(reply.text))
            R == MarkerLines(lines, {"RESPONSE:"})
            C == MarkerLines(lines, {"COMMAND:"})
        IN  /\ (Cardinality(R) = 1 /\ Cardinality(C) = 1) =>
                  LET e == ValueAfterMarker(lines[CHOOSE i \in R : TRUE])
                      c == ValueAfterMarker(lines[CHOOSE j \in C : TRUE])
                  IN  (/\ e # <<>>
                       /\ c # <<>>
                       /\ ~Occurs("RESPONSE:", e)
                       /\ ~Occurs("COMMAND:", c)
                       /\ c \notin NoneWords) =>
                          /\ ai_response = e
                          /\ suggested_command = Some(c)
            /\ (~Occurs("RESPONSE:", reply.text) /\ ~Occurs("COMMAND:", reply.text)) =>
                  /\ ai_response = Strip(reply.text)
                  /\ suggested_command = None
            /\ reply.text = <<"RESPONSE:", SP, "Lists", SP, "files", NL,
                              "COMMAND:", SP, "ls", SP, "-la", NL>> =>
                  /\ ai_response = <<"Lists", SP, "files">>
                  /\ suggested_command = Some(<<"ls", SP, "-la">>)

CodeExampleParsed ==
    /\ pc = "parsed"
    /\ reply = AiText(CodeExampleReply)
    /\ ai_response = <<"Lists", SP, "files">>
    /\ suggested_command = Some(LsCommand)

(* C7 as stated: a reply with a command-marker line whose value is "none" in *)
(* any letter case yields no command, no consent prompt and no execution.    *)
CommandValues(text) ==
    LET lines == SplitLines(Strip(text))
    IN  {ValueAfterMarker(lines[i]) : i \in MarkerLines(lines, {"COMMAND:"})}

HasNoneLine(text) == CommandValues(text) \cap NoneWords # {}

NothingOffered ==
    /\ suggested_command = None
    /\ pc \notin {"consent", "fixPrompt", "retryPrompt"}
    /\ choices = <<>>
    /\ shell = <<>>

NoneLineYieldsNoCommand ==
    (reply.kind = "text" /\ HasNoneLine(reply.text)) => NothingOffered

(* C7 amended: a "none" value (any letter case) never becomes the command, *)
(* and a reply all of whose command-marker lines have the value "none" or  *)
(* no value yields no command, no consent prompt and no execution.         *)
OnlyNoneLinesYieldNoCommand ==
    /\ suggested_command # None => suggested_command[1] \notin NoneWords
    /\ (/\ reply.kind = "text"
        /\ HasNoneLine(reply.text)
        /\ CommandValues(reply.text) \subseteq NoneWords \cup {<<>>}) => NothingOffered

NoneReplyHandled ==
    /\ turns > 0
    /\ pc = "input"
    /\ reply.kind = "text"
    /\ HasNoneLine(reply.text)
    /\ suggested_command = None
    /\ Len(conversation_history) = 2

(* C8: after every model call the explanation, and every assistant turn of *)
(* the log, is a non-empty text.                                           *)
ExplanationNeverEmpty ==
    /\ turns > 0 => ai_response # <<>>
    /\ \A i \in 1..Len(conversation_history) :
          conversation_history[i].role = "assistant" => conversation_history[i].content # <<>>

(* C9: the window built for a model request holds the most recent          *)
(* min(WindowSize, length) entries of the log as it was at the request (the *)
(* log up to its last user turn), in their order, so at most WindowSize.    *)
LastUserTurn ==
    CHOOSE i \in 1..Len(conversation_history) :
        /\ conversation_history[i].role = "user"
        /\ \A j \in (i + 1)..Len(conversation_history) : conversation_history[j].role # "user"

WindowIsMostRecent ==
    turns > 0 =>
        LET len == LastUserTurn
            n == IF len < WindowSize THEN len ELSE WindowSize
        IN  /\ Len(recent_history) <= WindowSize
            /\ Len(recent_history) = n
            /\ \A i \in 1..n : recent_history[i] = conversation_history[len - n + i]

WindowTruncated ==
    /\ turns > 0
    /\ LastUserTurn > WindowSize
    /\ Len(recent_history) = WindowSize
    /\ recent_history[1] = conversation_history[LastUserTurn - WindowSize + 1]

(* C10: every step leaves each entry of the log in place, with its role, *)
(* content and timestamp, and never shortens the log.                    *)
LogAppendOnly ==
    [][/\ Len(conversation_history') >= Len(conversation_history)
       /\ \A i \in 1..Len(conversation_history) :
             conversation_history'[i] = conversation_history[i]]_vars

LogGrownPastWindow ==
    /\ pc = "input"
    /\ Len(conversation_history) > WindowSize + 2
    /\ Len(recent_history) = WindowSize
    /\ conversation_history[Len(conversation_history)].role = "system"

(* C11: when the failure text contains "command not found" in any letter  *)
(* case, the pattern diagnostics returns the install command for the first *)
(* word of the failed command, whatever else the text contains.            *)
HasCommandNotFound(text) ==
    \E i \in 1..(Len(text) - 4) :
        /\ text[i] \in {"command", "Command"}
        /\ <<text[i + 1], text[i + 2], text[i + 3], text[i + 4]>> = <<SP, "not", SP, "found">>

InstallCommand(word) == Some(<<"apt-get update && apt-get install -y ", word>>)

CommandNotFoundInstallsFirstWord ==
    (pc = "diagnosed" /\ HasCommandNotFound(error_output)) =>
        /\ fix_suggestion = InstallCommand(command[1][1])
        /\ command = Some(<<"foo-cli", SP, "status">>) => fix_suggestion = InstallCommand("foo-cli")

InstallOfferedDespiteOtherPattern ==
    /\ pc = "diagnosed"
    /\ command = Some(FooCommand)
    /\ error_output = <<"Permission", SP, "denied", NL, "command", SP, "not", SP, "found">>
    /\ fix_suggestion = InstallCommand("foo-cli")

(* C12: an answer that is neither "y" nor "n" at the execute, fix or retry *)
(* prompt leaves the session at that prompt, runs nothing and leaves the   *)
(* log as it is.                                                           *)
ConsentPrompts == {"consent", "fixPrompt", "retryPrompt"}
InvalidAnswers == {Line(<<"x">>)}

InvalidAnswerKeepsPrompt ==
    [][(/\ pc \in ConsentPrompts
        /\ event'.at = pc
        /\ event'.ev \in InvalidAnswers) =>
           /\ pc' = pc
           /\ shell' = shell
           /\ conversation_history' = conversation_history]_vars

(* C13: after a failed model call the explanation is the error text, no  *)
(* command is suggested, no prompt is shown and nothing runs, the error   *)
(* text is the assistant turn that follows the user turn, and the loop is *)
(* back at its input prompt.                                              *)
LastTurn(k) == conversation_history[Len(conversation_history) - k]

ModelFaultYieldsErrorTurn ==
    (turns > 0 /\ reply.kind = "fault") =>
        /\ ai_response # <<>>
        /\ ai_response[1] = "Error getting AI response: "
        /\ suggested_command = None
        /\ choices = <<>>
        /\ shell = <<>>
        /\ TurnOver
        /\ Len(conversation_history) >= 2
        /\ LastTurn(0).role = "assistant"
        /\ LastTurn(0).content = ai_response
        /\ LastTurn(1).role = "user"

ModelFaultTurnDone ==
    /\ turns > 0
    /\ reply.kind = "fault"
    /\ pc = "input"
    /\ event.at = "input"
    /\ LastTurn(0).role = "assistant"

(* C14: when the pattern diagnostics found nothing and the model call of   *)
(* the model diagnostics failed, there is no candidate fix, no fix or retry *)
(* prompt, only the original command has run, the report is its captured    *)
(* output, logged as the last system turn, and the turn is over.            *)
DiagnosticsFaultMeansNoFix ==
    fix_reply = Some([kind |-> "fault", text |-> <<>>]) =>
        /\ diag = <<"pattern", "model">>
        /\ fix_suggestion = None
        /\ ~Prompted("fix")
        /\ ~Prompted("retry")
        /\ Len(shell) = 1
        /\ shell[1].step = "original"
        /\ TurnOver
        /\ ReportHas("Return code: ")
        /\ Contains(shell[1].result.stdout, output)
        /\ Contains(shell[1].result.stderr, output)
        /\ LastTurn(0).role = "system"
        /\ LastTurn(0).content = <<"Command output: ">> \o output
        /\ LastTurn(1).content = <<"Executed command: ">> \o shell[1].command

DiagnosticsFaultReported ==
    /\ fix_reply = Some(AiFault)
    /\ pc = "input"
    /\ shell[1].result.stdout # <<>>
    /\ LastTurn(0).role = "system"

(* C15: a step in which a fault is raised (reading input, spawning a command, *)
(* calling the model) is reported and ends at the input prompt of the loop;   *)
(* the loop ends only on an interrupt or on the exit token at its prompt.     *)
ExitLines == {Line(<<"c">>), Line(<<SP, "C">>)}

FaultsKeepLoopRunning ==
    [][/\ (pc # "done" /\ event'.at = pc /\ event'.ev.kind = "fault") =>
              /\ pc' = "input"
              /\ \/ screen' = "Unexpected error"
                 \/ output' = <<"Error executing command: ", "fault">>
       /\ (Len(shell') > Len(shell) /\ shell'[Len(shell')].result.kind = "fault") =>
              /\ pc' = "input"
              /\ output' = <<"Error executing command: ", "fault">>
       /\ (turns' > turns /\ reply'.kind = "fault") => pc' = "input"
       /\ (pc # "done" /\ pc' = "done") =>
              \/ event'.ev.kind = "interrupt"
              \/ pc = "input" /\ event'.ev \in ExitLines]_vars

FaultAtFixPromptSurvived ==
    /\ pc = "input"
    /\ event.at = "fixPrompt"
    /\ event.ev.kind = "fault"
    /\ output = ExecErrorText

(* C16: an empty line, the exit token and the new-prompt token at the input *)
(* prompt leave the log, the model call state and the executions as they    *)
(* are; the exit token ends the loop, the other two stay at the prompt.     *)
EmptyLines == {Line(<<>>), Line(<<SP>>)}
NewPromptLines == {Line(<<"p">>)}

ReservedInputsHaveNoEffect ==
    [][(pc = "input" /\ event'.at = "input"
        /\ event'.ev \in EmptyLines \cup ExitLines \cup NewPromptLines) =>
           /\ UNCHANGED <<conversation_history, clock, turns, reply, recent_history,
                          ai_response, suggested_command, choices, shell>>
           /\ pc' = IF event'.ev \in ExitLines THEN "done" ELSE "input"]_vars

ClosedAfterATurn ==
    /\ pc = "done"
    /\ event = [at |-> "input", ev |-> Line(<<SP, "C">>)]
    /\ Len(conversation_history) = 4

(* C17: a step appends either nothing, or the user turn (the last entry of the *)
(* window sent to the model) followed by the assistant turn holding the       *)
(* explanation, or, from a prompt of an accepted and run suggestion, the      *)
(* system turn naming the command followed by the system turn holding the     *)
(* report, which ends the turn; the sections of the report are ordered        *)
(* original, fix, retry; a declined suggestion appends nothing.               *)
SectionRank(tok) ==
    CASE tok \in {"STDOUT:\n", "STDERR:\n", "Return code: "} -> 1
      [] tok \in {"\n--- AFTER FIX ---\n", "\n--- FIX APPLIED ---\n",
                  "\n--- FIX ATTEMPT FAILED ---\n"} -> 2
      [] tok \in {"FIX STDOUT:\n", "FIX STDERR:\n"} -> 3
      [] tok = "\n--- RETRY RESULT ---\n" -> 4
      [] tok \in {"RETRY STDOUT:\n", "RETRY STDERR:\n", "RETRY Return code: "} -> 5
      [] OTHER -> 0

ReportInOrder(out, sh) ==
    /\ \A i, j \in 1..Len(out) :
          (i < j /\ SectionRank(out[i]) > 0 /\ SectionRank(out[j]) > 0) =>
              SectionRank(out[i]) <= SectionRank(out[j])
    /\ \A i \in 1..Len(out) :
          /\ SectionRank(out[i]) = 3 => \E k \in 1..Len(sh) : sh[k].step = "fix"
          /\ SectionRank(out[i]) = 5 => \E k \in 1..Len(sh) : sh[k].step = "retry"
    /\ (\A k \in 1..Len(sh) : sh[k].result.kind = "result") /\ out[1] # "Error executing command: " =>
          /\ Len(sh) > 1 => SectionRank(out[1]) = 1
          /\ (\E k \in 1..Len(sh) : sh[k].step = "fix") =>
                \E i \in 1..Len(out) : SectionRank(out[i]) = 3
          /\ (\E k \in 1..Len(sh) : sh[k].step = "retry") =>
                \E i \in 1..Len(out) : SectionRank(out[i]) = 5

DeclineAnswers == {Line(<<"n">>), Line(<<"x">>)}

TurnsAppendedInOrder ==
    [][LET n == Len(conversation_history)
           m == Len(conversation_history')
       IN  /\ m \in {n, n + 2}
           /\ m = n + 2 =>
                \/ /\ pc = "input"
                   /\ conversation_history'[n + 1].role = "user"
                   /\ conversation_history'[n + 1].content = Strip(event'.ev.text)
                   /\ recent_history'[Len(recent_history')] = conversation_history'[n + 1]
                   /\ conversation_history'[n + 2].role = "assistant"
                   /\ conversation_history'[n + 2].content = ai_response'
                \/ /\ pc \in ConsentPrompts
                   /\ pc' = "input"
                   /\ choices'[1] = [prompt |-> "execute", choice |-> <<"y">>]
                   /\ shell' # <<>>
                   /\ shell'[1].command = suggested_command[1]
                   /\ conversation_history'[n + 1].role = "system"
                   /\ conversation_history'[n + 1].content =
                          <<"Executed command: ">> \o suggested_command[1]
                   /\ conversation_history'[n + 2].role = "system"
                   /\ conversation_history'[n + 2].content = <<"Command output: ">> \o output'
                   /\ ReportInOrder(output', shell')
           /\ (pc = "consent" /\ event'.at = "consent" /\ event'.ev \in DeclineAnswers) =>
                 m = n]_vars

FullReportLogged ==
    /\ pc = "input"
    /\ Len(shell) = 3
    /\ shell[3].result.kind = "result"
    /\ conversation_history[Len(conversation_history)].content = <<"Command output: ">> \o output
    /\ ReportHas("\n--- RETRY RESULT ---\n")

(* C18: the failure of the executed command is diagnosed exactly when its exit *)
(* code is nonzero and it wrote to stderr or its stdout holds "error" in any   *)
(* letter case; otherwise nothing is diagnosed and no fix is ever prompted.    *)
ErrorIndicators == {"error", "Error", "ERROR"}

OriginalFailed ==
    LET res == shell[1].result
    IN  /\ res.returncode # 0
        /\ \/ res.stderr # <<>>
           \/ \E i \in 1..Len(res.stdout) : res.stdout[i] \in ErrorIndicators

RemediationIffFailureDetected ==
    (shell # <<>> /\ shell[1].result.kind = "result") =>
        /\ diag # <<>> <=> OriginalFailed
        /\ ~OriginalFailed =>
              /\ fix_suggestion = None
              /\ ~Prompted("fix")
              /\ Steps("fix") = {}
              /\ pc \notin {"fixPrompt", "retryPrompt"}
              /\ TurnOver

NonzeroExitNotDiagnosed ==
    /\ shell # <<>>
    /\ shell[1].result = Result(<<"file.txt">>, <<>>, 1)
    /\ diag = <<>>
    /\ pc = "input"

(* C19: on a detected failure the pattern diagnostics run first, on stderr  *)
(* when it is non-empty and on stdout otherwise; the model is asked exactly *)
(* when the patterns gave nothing, and a fix the patterns gave is the       *)
(* candidate fix.                                                           *)
PatternsFirstModelOnlyAfterNothing ==
    diag # <<>> =>
        LET res == shell[1].result
            pattern_fix == AnalyzeCommandOutputForErrors(shell[1].command, error_output)
        IN  /\ diag[1] = "pattern"
            /\ diag \in {<<"pattern">>, <<"pattern", "model">>}
            /\ res.stderr # <<>> => error_output = res.stderr
            /\ res.stderr = <<>> => error_output = res.stdout
            /\ diag = <<"pattern", "model">> <=> pattern_fix = None
            /\ fix_reply # None <=> pattern_fix = None
            /\ pattern_fix # None => fix_suggestion = pattern_fix

StderrDiagnosedNotStdout ==
    /\ diag = <<"pattern", "model">>
    /\ shell[1].result = Result(<<"Permission", SP, "denied">>, <<"boom">>, 2)
    /\ error_output = <<"boom">>
    /\ fix_reply # None

(* C20: the pattern diagnostics look for each table pattern as a substring of *)
(* the lower-cased failure text; "command not found" present gives the        *)
(* install command whatever else matches, otherwise the fix is that of the    *)
(* matching entry earliest in the table, and nothing when no entry matches.   *)
MatchingEntries ==
    {i \in 1..Len(ErrorFixes(command[1])) :
        Contains(ErrorFixes(command[1])[i].pattern, Lower(error_output))}

FirstMatchingEntryWins ==
    pc = "diagnosed" =>
        IF HasCommandNotFound(error_output)
        THEN fix_suggestion = InstallCommand(command[1][1])
        ELSE IF MatchingEntries = {}
        THEN fix_suggestion = None
        ELSE \E i \in MatchingEntries :
                /\ \A j \in MatchingEntries : i <= j
                /\ fix_suggestion = ErrorFixes(command[1])[i].fix

EarlierEntryBeatsEarlierText ==
    /\ pc = "diagnosed"
    /\ command = Some(CatCommand)
    /\ error_output = <<"Authentication", SP, "failed", NL, "Connection", SP, "refused">>
    /\ fix_suggestion = Some(<<"Check if the service is running or firewall settings">>)

(* C21: for every reply text the command extracted by the fix-suggestion *)
(* parser equals the command extracted by the response parser.           *)
FixParserAgreesWithResponseParser ==
    pc = "parsed" => fix_suggestion = suggested_command

(* C22: when a fault is raised after the original command has run (reading *)
(* the answer at the fix or retry prompt, spawning the fix or the retry),  *)
(* the report of the turn, returned and logged, is the execution-error     *)
(* text alone, with none of the output captured from the commands run.     *)
FaultAfterRunLosesOutput ==
    [][(/\ pc \in {"fixPrompt", "retryPrompt"}
        /\ \/ event'.at = pc /\ event'.ev.kind = "fault"
           \/ Len(shell') > Len(shell) /\ shell'[Len(shell')].result.kind = "fault") =>
           /\ shell'[1].step = "original"
           /\ shell'[1].result.kind = "result"
           /\ pc = "retryPrompt" => shell'[2].step = "fix" /\ shell'[2].result.kind = "result"
           /\ output' = <<"Error executing command: ", "fault">>
           /\ Len(conversation_history') = Len(conversation_history) + 2
           /\ conversation_history'[Len(conversation_history')].content =
                  <<"Command output: ", "Error executing command: ", "fault">>
           /\ \A i \in 1..Len(output') :
                 /\ SectionRank(output'[i]) = 0
                 /\ \A j \in 1..Len(output) : output'[i] # output[j]]_vars

RetrySpawnFaultLogged ==
    /\ pc = "input"
    /\ Len(shell) = 3
    /\ shell[3].step = "retry"
    /\ shell[3].result.kind = "fault"
    /\ shell[1].result.stderr # <<>>
    /\ output = ExecErrorText
    /\ conversation_history[Len(conversation_history)].content = <<"Command output: ">> \o output

(* C23: an interrupt at the fix or retry prompt ends the session at once: the *)
(* original command (and the fix, at the retry prompt) has been run, and no   *)
(* system turn for the turn is appended, then or later.                       *)
InterruptAfterRunLogsNothing ==
    [][/\ (pc \in {"fixPrompt", "retryPrompt"} /\ event'.at = pc
           /\ event'.ev.kind = "interrupt") =>
              /\ pc' = "done"
              /\ shell # <<>>
              /\ shell[1].step = "original"
              /\ pc = "retryPrompt" => Len(shell) = 2 /\ shell[2].step = "fix"
              /\ shell' = shell
              /\ conversation_history' = conversation_history
              /\ conversation_history[Len(conversation_history)].role = "assistant"
       /\ pc = "done" => conversation_history' = conversation_history /\ pc' = "done"]_vars

InterruptedAtRetryPrompt ==
    /\ pc = "done"
    /\ event = [at |-> "retryPrompt", ev |-> Interrupt]
    /\ Len(shell) = 2
    /\ shell[2].step = "fix"
    /\ conversation_history[Len(conversation_history)].role = "assistant"

====
